---- MODULE Spec2Model ----
(***************************************************************************)
(* A model of src/agent.py (Hotel QA agent).                               *)
(*                                                                         *)
(*   SpecQuery : the tool query_hotels (filter / sort / limit) applied to  *)
(*               bounded datasets and requests.                            *)
(*   SpecChat  : the conversation loop of main(), the chatbot/tools graph  *)
(*               built by get_graph() and invoke_graph().                  *)
(*                                                                         *)
(* Representation.                                                         *)
(*   - A Python str that the code processes character by character (city,  *)
(*     country) is a sequence of ASCII code points: "Ab" is <<65, 98>>.    *)
(*   - An Optional[T] argument is <<>> for None and <<v>> for the value v. *)
(*   - A DataFrame is the sequence of the row labels (positions in the     *)
(*     loaded dataset) it still holds, in its current order.               *)
(***************************************************************************)
EXTENDS Integers, Sequences, FiniteSets, TLC

VARIABLES
    dataset,       \* load_csv(): the cached table, a sequence of hotel rows
    req,           \* arguments of the last query_hotels call observed
    out,           \* what that call produced: rendered rows or a raised error
    messages,      \* st.session_state.messages
    chat_history,  \* st.session_state.chat_history.messages
    pc,            \* position of the script run inside main()
    gstate,        \* State["messages"] of the running graph invocation
    steps,         \* supersteps the running graph invocation has used
    calls,         \* tool calls of the AIMessage the tools node is executing
    ai_text,       \* value returned by invoke_graph
    exc,           \* exception travelling to main()'s except clause
    turns          \* user turns submitted so far

vars == <<dataset, req, out, messages, chat_history, pc, gstate, steps, calls,
          ai_text, exc, turns>>

queryVars == <<dataset, req, out>>
chatVars == <<messages, chat_history, pc, gstate, steps, calls, ai_text, exc, turns>>

(***************************************************************************)
(* Bounds of the model.                                                    *)
(***************************************************************************)
MaxRows == 2        \* longest dataset enumerated row by row
LongLen == 12       \* rows of the one long dataset (more than the limit of 10)
MaxTurns == 2       \* user turns in one session
MaxToolCalls == 2   \* tool calls the model may put into one AIMessage
\* graph.invoke (line 131) passes no config, so langgraph's recursion limit
\* applies: a run that needs more supersteps than the limit is aborted with
\* GraphRecursionError.  langgraph's default is 25; the model takes a smaller
\* limit, the behaviour at the limit being the same.
RecursionLimit == 3

(***************************************************************************)
(* Generic helpers.                                                        *)
(***************************************************************************)
None == <<>>
Some(v) == <<v>>
IsNone(x) == x = <<>>
Val(x) == x[1]

MinInt(a, b) == IF a <= b THEN a ELSE b
MaxInt(a, b) == IF a >= b THEN a ELSE b

RECURSIVE SelectIdx(_, _)
\* The subsequence of the labels of s whose label satisfies keep[label].
SelectIdx(s, keep) ==
    IF s = <<>> THEN <<>>
    ELSE IF keep[Head(s)] THEN <<Head(s)>> \o SelectIdx(Tail(s), keep)
         ELSE SelectIdx(Tail(s), keep)

Range(s) == {s[i] : i \in DOMAIN s}

(***************************************************************************)
(* Strings as the code handles them.                                       *)
(***************************************************************************)
\* str.lower() on one ASCII character: 'A'..'Z' (65..90) move to 'a'..'z'.
LowerChar(c) == IF c \in 65..90 THEN c + 32 ELSE c

\* str.lower() / Series.str.lower(), lines 69 and 71.
Lower(s) == [i \in DOMAIN s |-> LowerChar(s[i])]

RECURSIVE StrLess(_, _)
\* Python's < on two str values: lexicographic by code point.
StrLess(s, t) ==
    IF t = <<>> THEN FALSE
    ELSE IF s = <<>> THEN TRUE
    ELSE IF Head(s) # Head(t) THEN Head(s) < Head(t)
    ELSE StrLess(Tail(s), Tail(t))

(***************************************************************************)
(* The dataset: hotels.csv after load_csv() dropped the unused columns.    *)
(***************************************************************************)
StrColumns == {"name", "city", "country"}
NumColumns == {"star_rating", "cleanliness_base", "comfort_base", "facilities_base"}
Columns == StrColumns \cup NumColumns

Hotel(n, ci, co, st, cl, cf, fa) ==
    [name |-> n, city |-> ci, country |-> co, star_rating |-> st,
     cleanliness_base |-> cl, comfort_base |-> cf, facilities_base |-> fa]

\* Rows the short datasets are built from.  "Ab"/"ab" differ in case only,
\* "a" is a proper prefix of both; cleanliness and comfort have ties.
HotelPool ==
    { Hotel(<<65>>, <<65, 98>>, <<88>>, 5, 9, 8, 7),
      Hotel(<<66>>, <<97, 98>>, <<120>>, 3, 9, 7, 9),
      Hotel(<<67>>, <<97>>, <<121>>, 4, 8, 8, 0),
      Hotel(<<68>>, <<65, 66>>, <<88>>, 5, 7, 9, 8) }

RECURSIVE InjectiveSeqs(_, _)
\* Sequences of at most n distinct elements of S.
InjectiveSeqs(S, n) ==
    IF n = 0 THEN {<<>>}
    ELSE {<<>>} \cup UNION { {<<x>> \o t : t \in InjectiveSeqs(S \ {x}, n - 1)} : x \in S }

\* A dataset with more rows than the limit of 10.  Rows 1 and 2 have the
\* same city up to case ("ab", "Ab") and the same star_rating; every other
\* value of a column the requests sort by is distinct.
LongDataset ==
    [i \in 1..LongLen |->
        Hotel(<<72, 64 + i>>,
              IF i = 1 THEN <<97, 98>> ELSE IF i = 2 THEN <<65, 98>> ELSE <<99, 96 + i>>,
              IF i % 3 = 0 THEN <<88>> ELSE <<120>>,
              IF i = 2 THEN 1 ELSE i,
              i, LongLen - i, (i * 5) % 13)]

Datasets == InjectiveSeqs(HotelPool, MaxRows) \cup {LongDataset}

\* load_csv(), lines 23-26: the cached table is returned unchanged on every call.
load_csv == dataset

(***************************************************************************)
(* query_hotels, lines 47-90.                                              *)
(***************************************************************************)
DefaultNumResults == 10     \* line 49: num_results: Optional[int] = 10
MinResults == 1             \* line 64
MaxResults == 10            \* line 64

\* Lines 57-62.
COLUMN_MAP ==
    [comfort |-> "comfort_base", cleanliness |-> "cleanliness_base",
     facilities |-> "facilities_base", star_rating |-> "star_rating"]

\* Python truthiness of an Optional[str] argument (if city:, if country:).
TruthyStr(x) == ~IsNone(x) /\ Val(x) # <<>>
\* Python truthiness of an Optional[int] argument (if star_rating:, ...).
TruthyInt(x) == ~IsNone(x) /\ Val(x) # 0
\* Python truthiness of sort_by, kept as a TLA+ string (if sort_by:).
TruthyName(x) == ~IsNone(x) /\ Val(x) # ""

\* Argument binding of the call, lines 48-49: an argument the caller leaves
\* out takes its default; only num_results has a default other than None.
Bind(r) ==
    [r EXCEPT !.num_results = IF r.num_given THEN @ ELSE Some(DefaultNumResults)]

\* Line 64: min(max(num_results, 1), 10).
ClampNumResults(n) == MinInt(MaxInt(n, MinResults), MaxResults)

\* Lines 68-69: csv[csv['city'].str.lower() == city.lower()] when city is truthy.
CityFilter(ds, idx, city) ==
    IF TruthyStr(city)
    THEN SelectIdx(idx, [i \in DOMAIN ds |-> Lower(ds[i].city) = Lower(Val(city))])
    ELSE idx

\* Lines 70-71.
CountryFilter(ds, idx, country) ==
    IF TruthyStr(country)
    THEN SelectIdx(idx, [i \in DOMAIN ds |-> Lower(ds[i].country) = Lower(Val(country))])
    ELSE idx

\* Lines 72-79: csv[csv[col] >= threshold] when the threshold is truthy.
ThresholdFilter(ds, idx, col, threshold) ==
    IF TruthyInt(threshold)
    THEN SelectIdx(idx, [i \in DOMAIN ds |-> ds[i][col] >= Val(threshold)])
    ELSE idx

\* Lines 67-79, the filters in the order the code applies them.
ApplyFilters(ds, r) ==
    LET all == [i \in 1..Len(ds) |-> i]
        f1 == CityFilter(ds, all, r.city)
        f2 == CountryFilter(ds, f1, r.country)
        f3 == ThresholdFilter(ds, f2, "star_rating", r.star_rating)
        f4 == ThresholdFilter(ds, f3, "cleanliness_base", r.cleanliness)
        f5 == ThresholdFilter(ds, f4, "comfort_base", r.comfort)
    IN  ThresholdFilter(ds, f5, "facilities_base", r.facilities)

\* SortCol with the lookup falling back to a fixed column: COLUMN_MAP.get(sort_by, "star_rating").
SortColFallback(sort_by) ==
    IF sort_by \in DOMAIN COLUMN_MAP THEN COLUMN_MAP[sort_by] ELSE "star_rating"

\* Line 83: COLUMN_MAP.get(sort_by, sort_by).
SortCol(sort_by) ==
    IF sort_by \in DOMAIN COLUMN_MAP THEN COLUMN_MAP[sort_by] ELSE sort_by

\* Order of two values of column col.
KeyLess(a, b, col) == IF col \in StrColumns THEN StrLess(a, b) ELSE a < b

RECURSIVE SortedOrders(_, _, _)
\* Line 85: csv.sort_values(by=col, ascending=False).  The call leaves kind at
\* pandas' default 'quicksort', which is not a stable sort: the result is
\* non-increasing in col, and the order among rows with equal values is
\* whatever the sorting routine of the installed numpy produces.  Every
\* non-increasing arrangement of the rows S is therefore a possible result.
SortedOrders(ds, S, col) ==
    IF S = {} THEN {<<>>}
    ELSE LET top == {i \in S : \A j \in S : ~KeyLess(ds[i][col], ds[j][col], col)}
         IN  UNION { {<<i>> \o t : t \in SortedOrders(ds, S \ {i}, col)} : i \in top }

\* Lines 81-85: sort when sort_by is truthy and resolves to a column.
ApplySort(ds, idx, sort_by) ==
    IF TruthyName(sort_by) /\ SortCol(Val(sort_by)) \in Columns
    THEN SortedOrders(ds, Range(idx), SortCol(Val(sort_by)))
    ELSE {idx}

\* Line 88: csv.head(n).
HeadRows(idx, n) == SubSeq(idx, 1, MinInt(n, Len(idx)))

\* Line 90: csv.to_string(index=False): the rows in order, every retained
\* column, without the index column.
to_string(ds, idx) == [k \in 1..Len(idx) |-> ds[idx[k]]]

Returned(rows) == [status |-> "ok", rows |-> rows]
Raised == [status |-> "error", rows |-> <<>>]

\* query_hotels as a whole: the set of outcomes the call can have.
\* max(None, 1) on line 64 raises TypeError before anything else happens.
query_hotels(ds, r0) ==
    LET r == Bind(r0) IN
    IF IsNone(r.num_results) THEN {Raised}
    ELSE LET n == ClampNumResults(Val(r.num_results))
             filtered == ApplyFilters(ds, r)
         IN  { Returned(to_string(ds, HeadRows(s, n))) : s \in ApplySort(ds, filtered, r.sort_by) }

(***************************************************************************)
(* Requests the tool is called with.                                       *)
(***************************************************************************)
CityArgs == {None, Some(<<>>), Some(<<97, 98>>), Some(<<65, 66>>), Some(<<97>>)}
CountryArgs == {None, Some(<<88>>)}
StarArgs == {None, Some(0), Some(4)}
ScoreArgs == {None, Some(8)}
SortArgs == {None, Some(""), Some("star_rating"), Some("cleanliness"), Some("comfort"),
             Some("facilities"), Some("city"), Some("comfort_base"),
             Some("price")}
\* num_results as the caller passes it; <<FALSE, None>> is a call that leaves it out.
NumArgs == {<<FALSE, None>>} \cup
           {<<TRUE, n>> : n \in {None, Some(-5), Some(0), Some(1), Some(2), Some(10), Some(500)}}

Requests ==
    { [city |-> ci, country |-> co, star_rating |-> st, cleanliness |-> cl,
       comfort |-> cf, facilities |-> fa, sort_by |-> sb,
       num_given |-> nr[1], num_results |-> nr[2]] :
         ci \in CityArgs, co \in CountryArgs, st \in StarArgs, cl \in ScoreArgs,
         cf \in ScoreArgs, fa \in ScoreArgs, sb \in SortArgs, nr \in NumArgs }

\* A call that passes no argument at all.
EmptyRequest ==
    [city |-> None, country |-> None, star_rating |-> None, cleanliness |-> None,
     comfort |-> None, facilities |-> None, sort_by |-> None,
     num_given |-> FALSE, num_results |-> None]

NoOutcome == [status |-> "none", rows |-> <<>>]

(***************************************************************************)
(* Specification of the tool alone.                                        *)
(***************************************************************************)
ChatIdle ==
    /\ messages = <<>>
    /\ chat_history = <<>>
    /\ pc = "idle"
    /\ gstate = <<>>
    /\ steps = 0
    /\ calls = <<>>
    /\ ai_text = <<>>
    /\ exc = ""
    /\ turns = 0

InitQuery ==
    /\ dataset \in Datasets
    /\ req = EmptyRequest
    /\ out = NoOutcome
    /\ ChatIdle

\* One call of the tool on the loaded dataset: every argument combination,
\* every possible outcome.  The call is a pure function of the dataset and
\* the arguments, so one call per behaviour covers every call.
QueryHotels ==
    /\ out = NoOutcome
    /\ \E r \in Requests :
        \E o \in query_hotels(load_csv, r) :
            /\ req' = r
            /\ out' = o
    /\ UNCHANGED <<dataset, chatVars>>

NextQuery == QueryHotels

SpecQuery == InitQuery /\ [][NextQuery]_vars

(***************************************************************************)
(* Vocabulary of the claims about query_hotels.                            *)
(***************************************************************************)
LogicalSortNames == {"star_rating", "cleanliness", "comfort", "facilities"}

\* A filter is set when the request carries a value for it.
IsSet(x) == ~IsNone(x)

\* Case-insensitive equality of two strings.
SameIgnoringCase(s, t) == Lower(s) = Lower(t)

\* The row satisfies every filter that is set in request r.
SatisfiesSetFilters(row, r) ==
    /\ IsSet(r.city) => SameIgnoringCase(row.city, Val(r.city))
    /\ IsSet(r.country) => SameIgnoringCase(row.country, Val(r.country))
    /\ IsSet(r.star_rating) => row.star_rating >= Val(r.star_rating)
    /\ IsSet(r.cleanliness) => row.cleanliness_base >= Val(r.cleanliness)
    /\ IsSet(r.comfort) => row.comfort_base >= Val(r.comfort)
    /\ IsSet(r.facilities) => row.facilities_base >= Val(r.facilities)

\* The attribute a logical sort name stands for.
SortAttribute(name) ==
    CASE name = "star_rating" -> "star_rating"
      [] name = "cleanliness" -> "cleanliness_base"
      [] name = "comfort" -> "comfort_base"
      [] name = "facilities" -> "facilities_base"

\* The limit a request asks for: its num_results, 10 when it gives none.
RequestedLimit(r) == IF r.num_given THEN Val(r.num_results) ELSE 10
ClampedLimit(r) ==
    IF RequestedLimit(r) < 1 THEN 1
    ELSE IF RequestedLimit(r) > 10 THEN 10 ELSE RequestedLimit(r)

\* Position of a row in the dataset (the rows of a dataset are distinct).
Position(row) == CHOOSE i \in DOMAIN dataset : dataset[i] = row

RECURSIVE StableDescending(_, _)
\* rows in non-increasing order of column col, equal values in their given order.
StableDescending(rows, col) ==
    IF rows = <<>> THEN <<>>
    ELSE LET k == CHOOSE k \in DOMAIN rows :
                    /\ \A j \in DOMAIN rows : rows[j][col] <= rows[k][col]
                    /\ \A j \in 1..(k - 1) : rows[j][col] < rows[k][col]
             rest == [j \in 1..(Len(rows) - 1) |-> IF j < k THEN rows[j] ELSE rows[j + 1]]
         IN  <<rows[k]>> \o StableDescending(rest, col)

Prefix(s, n) == SubSeq(s, 1, IF n < Len(s) THEN n ELSE Len(s))

Answered == out.status = "ok"
HasLimit(r) == ~r.num_given \/ IsSet(r.num_results)

\* C1: every record of the result satisfies every filter set in the request
\* (city and country equal ignoring case, the four numeric attributes at
\* least the requested thresholds), a filter being set whenever the request
\* carries a value for it, 0 and the empty string included.
C1_Soundness ==
    Answered => \A k \in DOMAIN out.rows : SatisfiesSetFilters(out.rows[k], req)

\* C2: the result is exactly the first L records (L the clamped limit) of
\* the sequence of all records satisfying every set filter, taken in dataset
\* order when sort_by is absent and in sorted order (descending, ties in
\* dataset order) when it is one of the four sort fields; a request with no
\* field set returns the first 10 records of the dataset.
C2_CompleteUpToLimit ==
    LET matching == SelectSeq(dataset, LAMBDA row : SatisfiesSetFilters(row, req))
        ordered == IF IsNone(req.sort_by) THEN matching
                   ELSE StableDescending(matching, SortAttribute(Val(req.sort_by)))
    IN  /\ (Answered /\ (IsNone(req.sort_by) \/ Val(req.sort_by) \in LogicalSortNames))
              => out.rows = Prefix(ordered, ClampedLimit(req))
        /\ (Answered /\ req = EmptyRequest) => out.rows = Prefix(dataset, 10)

\* C3: no requested num_results makes the call fail; the call returns at
\* most min(max(num_results, 1), 10) rows; num_results <= 0 gives the result
\* of num_results = 1, num_results > 10 that of num_results = 10, and a
\* request without num_results that of num_results = 10.
C3_LimitClamping ==
    /\ out.status # "error"
    /\ (Answered /\ HasLimit(req)) =>
          /\ Len(out.rows) <= ClampedLimit(req)
          /\ out \in query_hotels(dataset,
                 [req EXCEPT !.num_given = TRUE, !.num_results = Some(ClampedLimit(req))])

\* C4: with sort_by one of star_rating, cleanliness, comfort, facilities the
\* returned records are in non-increasing order of the mapped attribute, and
\* records with equal values keep their relative dataset order.
C4_SortedStable ==
    (Answered /\ IsSet(req.sort_by) /\ Val(req.sort_by) \in LogicalSortNames) =>
        LET col == SortAttribute(Val(req.sort_by)) IN
        \A i, j \in DOMAIN out.rows :
            i < j => /\ out.rows[i][col] >= out.rows[j][col]
                     /\ out.rows[i][col] = out.rows[j][col]
                            => Position(out.rows[i]) < Position(out.rows[j])

\* The request r with sort_by absent.
WithoutSort(r) == [r EXCEPT !.sort_by = None]

\* C5 (as stated): with sort_by any value other than the four logical field
\* names (city, country, comfort_base, an arbitrary string) the call behaves
\* exactly as the same request with sort_by absent.
C5_UnknownSortIgnored_Original ==
    (out # NoOutcome /\ IsSet(req.sort_by) /\ Val(req.sort_by) \notin LogicalSortNames)
        => out \in query_hotels(dataset, WithoutSort(req))

\* C5 (amended): with sort_by a value that is neither one of the four logical
\* field names nor the name of a dataset column, the call behaves exactly as
\* the same request with sort_by absent: same failure if that one fails,
\* otherwise the same rows, which are in original dataset order.
C5_UnknownSortIgnored ==
    (out # NoOutcome /\ IsSet(req.sort_by)
       /\ Val(req.sort_by) \notin LogicalSortNames /\ Val(req.sort_by) \notin Columns)
        => /\ query_hotels(dataset, WithoutSort(req)) = {out}
           /\ \A i, j \in DOMAIN out.rows :
                  i < j => Position(out.rows[i]) < Position(out.rows[j])

\* Witness of C5: a call with the unknown sort field "price" returned at
\* least two rows whose star ratings are in increasing order, so both a sort
\* and its absence are visible in the result.
C5_Witness ==
    /\ Answered
    /\ req.sort_by = Some("price")
    /\ Len(out.rows) >= 2
    /\ out.rows[1].star_rating < out.rows[2].star_rating

Upper(s) == [i \in DOMAIN s |-> IF s[i] \in 97..122 THEN s[i] - 32 ELSE s[i]]
\* The values that differ from x in letter case only (a sample of them).
CaseVariants(x) ==
    IF IsNone(x) THEN {x} ELSE {x, Some(Lower(Val(x))), Some(Upper(Val(x)))}

\* C6: two requests that differ only in the letter case of city and/or
\* country have identical results, and a record matches a city (country)
\* filter exactly when its city (country) equals the requested string after
\* lower-casing both: the call returns what it returns, without the two
\* string filters, on the dataset restricted to the exactly matching records.
C6_CaseInsensitiveExact ==
    out # NoOutcome =>
        /\ \A ci \in CaseVariants(req.city), co \in CaseVariants(req.country) :
              out \in query_hotels(dataset, [req EXCEPT !.city = ci, !.country = co])
        /\ LET exact == SelectSeq(dataset, LAMBDA row :
                            /\ IsSet(req.city) => Lower(row.city) = Lower(Val(req.city))
                            /\ IsSet(req.country) => Lower(row.country) = Lower(Val(req.country)))
           IN  out \in query_hotels(exact, [req EXCEPT !.city = None, !.country = None])

(***************************************************************************)
(* The conversation loop: main(), get_graph(), invoke_graph().             *)
(*                                                                         *)
(* A message content is the sequence of the text fragments it is built     *)
(* from; the empty string is <<>>.                                         *)
(***************************************************************************)
UserMsg(text) == [role |-> "user", content |-> text]
AssistantMsg(text) == [role |-> "assistant", content |-> text]
HumanMessage(text) == [type |-> "human", content |-> text, tool_calls |-> 0]
AIMessage(text, k) == [type |-> "ai", content |-> text, tool_calls |-> k]
SystemMessage == [type |-> "system", content |-> <<"You are a helpful hotel assistant.">>, tool_calls |-> 0]
ToolMessage(status) == [type |-> "tool", content |-> <<status>>, tool_calls |-> 0]

UserTexts == {<<"question">>}
ModelTexts == {<<>>, <<"answer">>}

\* What the model makes the tool do: one call that passes nothing and one
\* that passes num_results = null, which the schema Optional[int] admits.
ToolRequests ==
    {EmptyRequest, [EmptyRequest EXCEPT !.num_given = TRUE, !.num_results = None]}

ChatDataset ==
    << Hotel(<<65>>, <<65, 98>>, <<88>>, 5, 9, 8, 7),
       Hotel(<<66>>, <<97, 98>>, <<120>>, 3, 9, 7, 9) >>

\* initialize_session_state(), lines 30-36, and the caches of a fresh process.
InitChat ==
    /\ dataset = ChatDataset
    /\ req = EmptyRequest
    /\ out = NoOutcome
    /\ ChatIdle

\* Lines 189-197 and 214: the user submits text; it is appended to both
\* transcripts and the graph is started on [system_message] + chat_history.
Submit ==
    /\ pc = "idle"
    /\ turns < MaxTurns
    /\ \E text \in UserTexts :
        /\ messages' = Append(messages, UserMsg(text))
        /\ chat_history' = Append(chat_history, HumanMessage(text))
        /\ gstate' = <<SystemMessage>> \o Append(chat_history, HumanMessage(text))
    /\ pc' = "chatbot"
    /\ steps' = 0
    /\ calls' = <<>>
    /\ ai_text' = <<>>
    /\ exc' = ""
    /\ turns' = turns + 1
    /\ UNCHANGED queryVars

\* Lines 108-110 and 117: the chatbot node.  The model call either raises or
\* returns an AIMessage carrying any number of tool calls; tools_condition
\* routes to the tools node when there is at least one, to the end otherwise.
Chatbot ==
    /\ pc = "chatbot"
    /\ steps < RecursionLimit
    /\ \/ /\ pc' = "except"
          /\ exc' = "LLMError"
          /\ UNCHANGED <<gstate, steps, calls>>
       \/ \E text \in ModelTexts, k \in 0..MaxToolCalls :
            /\ gstate' = Append(gstate, AIMessage(text, k))
            /\ steps' = steps + 1
            /\ calls' = [i \in 1..k |-> "pending"]
            /\ pc' = IF k > 0 THEN "tools" ELSE "end"
            /\ exc' = exc
    /\ UNCHANGED <<queryVars, messages, chat_history, ai_text, turns>>

\* The next node is due but the run has used up its supersteps.
GraphRecursion ==
    /\ pc \in {"chatbot", "tools"}
    /\ steps >= RecursionLimit
    /\ pc' = "except"
    /\ exc' = "GraphRecursionError"
    /\ UNCHANGED <<queryVars, messages, chat_history, gstate, steps, calls, ai_text, turns>>

\* Lines 115-116: ToolNode hands every tool call of the AIMessage to a worker
\* of its executor; a call starts ...
ToolStart ==
    /\ pc = "tools"
    /\ steps < RecursionLimit
    /\ \E i \in DOMAIN calls :
        /\ calls[i] = "pending"
        /\ calls' = [calls EXCEPT ![i] = "running"]
    /\ UNCHANGED <<queryVars, messages, chat_history, pc, gstate, steps, ai_text, exc, turns>>

\* ... and finishes with what query_hotels produced.  An exception of the
\* tool is either turned into an error ToolMessage or re-raised out of the
\* graph, depending on the installed ToolNode's handle_tool_errors default.
ToolFinish ==
    /\ pc = "tools"
    /\ \E i \in DOMAIN calls :
        /\ calls[i] = "running"
        /\ \E r \in ToolRequests :
            \E o \in query_hotels(load_csv, r) :
                \/ /\ calls' = [calls EXCEPT ![i] = o.status]
                   /\ UNCHANGED <<pc, exc>>
                \/ /\ o.status = "error"
                   /\ pc' = "except"
                   /\ exc' = "TypeError"
                   /\ UNCHANGED calls
    /\ UNCHANGED <<queryVars, messages, chat_history, gstate, steps, ai_text, turns>>

\* Lines 116 and 118: when every call has finished the tools node appends
\* one ToolMessage per call and the edge tools -> chatbot is taken.
ToolsDone ==
    /\ pc = "tools"
    /\ calls # <<>>
    /\ \A i \in DOMAIN calls : calls[i] \in {"ok", "error"}
    /\ gstate' = gstate \o [i \in DOMAIN calls |-> ToolMessage(calls[i])]
    /\ steps' = steps + 1
    /\ calls' = <<>>
    /\ pc' = "chatbot"
    /\ UNCHANGED <<queryVars, messages, chat_history, ai_text, exc, turns>>

RECURSIVE LastAIContent(_)
\* Lines 133-138: content of the last AIMessage, the fixed text when none.
LastAIContent(msgs) ==
    IF msgs = <<>> THEN <<"Response generation failed.">>
    ELSE IF msgs[Len(msgs)].type = "ai" THEN msgs[Len(msgs)].content
    ELSE LastAIContent(SubSeq(msgs, 1, Len(msgs) - 1))

\* Lines 131-138: graph.invoke returns and invoke_graph picks its answer.
invoke_graph ==
    /\ pc = "end"
    /\ ai_text' = LastAIContent(gstate)
    /\ pc' = "returned"
    /\ UNCHANGED <<queryVars, messages, chat_history, gstate, steps, calls, exc, turns>>

\* Lines 219-227: a non-empty answer goes to both transcripts, an empty one
\* puts "No response generated" into st.session_state.messages only.
RecordReply ==
    /\ pc = "returned"
    /\ IF ai_text # <<>>
       THEN /\ messages' = Append(messages, AssistantMsg(ai_text))
            /\ chat_history' = Append(chat_history, AIMessage(ai_text, 0))
       ELSE /\ messages' = Append(messages, AssistantMsg(<<"No response generated">>))
            /\ chat_history' = chat_history
    /\ pc' = "idle"
    /\ gstate' = <<>>
    /\ steps' = 0
    /\ calls' = <<>>
    /\ UNCHANGED <<queryVars, ai_text, exc, turns>>

\* HandleException keeping the messages the failed graph run had produced:
\* the except clause stores the partial graph state in the chat history.
HandleExceptionKeepsPartial ==
    /\ pc = "except"
    /\ messages' = Append(messages, AssistantMsg(<<" Error: ", exc>>))
    /\ chat_history' = SubSeq(gstate, 2, Len(gstate))
                          \o <<AIMessage(<<"I encountered an error: ", exc>>, 0)>>
    /\ pc' = "idle"
    /\ gstate' = <<>>
    /\ steps' = 0
    /\ calls' = <<>>
    /\ UNCHANGED <<queryVars, ai_text, exc, turns>>

\* Lines 229-235: the except clause records one notice in each transcript.
HandleException ==
    /\ pc = "except"
    /\ messages' = Append(messages, AssistantMsg(<<" Error: ", exc>>))
    /\ chat_history' = Append(chat_history, AIMessage(<<"I encountered an error: ", exc>>, 0))
    /\ pc' = "idle"
    /\ gstate' = <<>>
    /\ steps' = 0
    /\ calls' = <<>>
    /\ UNCHANGED <<queryVars, ai_text, exc, turns>>

\* Lines 164-167: the Clear Chat button.
ClearChat ==
    /\ pc = "idle"
    /\ messages' = <<>>
    /\ chat_history' = <<>>
    /\ UNCHANGED <<queryVars, pc, gstate, steps, calls, ai_text, exc, turns>>

NextChat ==
    \/ Submit
    \/ Chatbot
    \/ GraphRecursion
    \/ ToolStart
    \/ ToolFinish
    \/ ToolsDone
    \/ invoke_graph
    \/ RecordReply
    \/ HandleException
    \/ ClearChat

SpecChat == InitChat /\ [][NextChat]_vars

(***************************************************************************)
(* Claims about the conversation loop.                                     *)
(***************************************************************************)
InTurn == pc # "idle"

\* C7: a graph invocation that raises is contained in its turn.  While the
\* turn runs, and when the exception is raised, both transcripts stay as
\* they were after the user's message; the except clause then appends
\* exactly one assistant error notice to each, nothing else, discards the
\* graph's partial state and leaves the session ready for the next turn.
C7_FailureContained ==
    [][ /\ (InTurn /\ pc' # "idle") =>
              /\ messages' = messages
              /\ chat_history' = chat_history
        /\ (pc' = "except") =>
              /\ messages[Len(messages)].role = "user"
              /\ chat_history[Len(chat_history)].type = "human"
        /\ (pc = "except") =>
              /\ pc' = "idle"
              /\ messages' = Append(messages, AssistantMsg(<<" Error: ", exc>>))
              /\ chat_history' =
                    Append(chat_history, AIMessage(<<"I encountered an error: ", exc>>, 0))
              /\ gstate' = <<>> /\ calls' = <<>> /\ steps' = 0
      ]_vars

\* Witness of C7: the first turn failed after the graph had already produced
\* messages (a tool round), its notice is the only thing recorded after the
\* user's message, and a later turn was answered normally.
C7_Witness ==
    /\ pc = "idle"
    /\ Len(messages) = 4
    /\ Len(chat_history) = 4
    /\ messages[2] = AssistantMsg(<<" Error: ", "GraphRecursionError">>)
    /\ chat_history[2].content = <<"I encountered an error: ", "GraphRecursionError">>
    /\ messages[4] = AssistantMsg(<<"answer">>)

Executed == {i \in DOMAIN calls : calls[i] # "pending"}
Executing == {i \in DOMAIN calls : calls[i] = "running"}

\* C8: between two consecutive chatbot steps query_hotels is executed at
\* most once, two executions never overlap, and the next chatbot step starts
\* only after the call has completed and its result is in the message state.
C8_OneSynchronousToolCall ==
    /\ Cardinality(Executed) <= 1
    /\ Cardinality(Executing) <= 1
    /\ pc = "chatbot" =>
          /\ calls = <<>>
          /\ gstate[Len(gstate)].type \in {"human", "tool"}

\* C9: every invocation of the graph ends, whatever the model does (a model
\* that requests a tool call on every turn included), and when it ends
\* invoke_graph has returned the content of the last assistant message, or
\* the fixed text when there is none.  Stated for the invocations in which
\* neither the model call nor the tool raised.
C9_EndsWithAnswer ==
    (pc \in {"returned", "except"} /\ exc \notin {"LLMError", "TypeError"}) =>
        /\ pc = "returned"
        /\ ai_text = LastAIContent(gstate)

\* C10: between turns the two transcripts have the same number of entries
\* with the same roles in the same order, and both alternate user,
\* assistant starting with user.
C10_TranscriptsConsistent ==
    pc = "idle" =>
        /\ Len(messages) = Len(chat_history)
        /\ \A i \in DOMAIN messages :
              /\ i \in DOMAIN chat_history =>
                    (messages[i].role = "user" <=> chat_history[i].type = "human")
              /\ messages[i].role = IF i % 2 = 1 THEN "user" ELSE "assistant"
        /\ \A i \in DOMAIN chat_history :
              chat_history[i].type = IF i % 2 = 1 THEN "human" ELSE "ai"

(***************************************************************************)
(* Supporting facts: what the code does guarantee where a claim above      *)
(* fails.  Each holds in every reachable state of SpecQuery or SpecChat.   *)
(***************************************************************************)
\* The row satisfies every filter the code applies (a truthy argument).
SatisfiesAppliedFilters(row, r) ==
    /\ TruthyStr(r.city) => SameIgnoringCase(row.city, Val(r.city))
    /\ TruthyStr(r.country) => SameIgnoringCase(row.country, Val(r.country))
    /\ TruthyInt(r.star_rating) => row.star_rating >= Val(r.star_rating)
    /\ TruthyInt(r.cleanliness) => row.cleanliness_base >= Val(r.cleanliness)
    /\ TruthyInt(r.comfort) => row.comfort_base >= Val(r.comfort)
    /\ TruthyInt(r.facilities) => row.facilities_base >= Val(r.facilities)

\* Soundness with respect to the applied filters.
SoundForAppliedFilters ==
    Answered => \A k \in DOMAIN out.rows : SatisfiesAppliedFilters(out.rows[k], req)

\* Without a sort the result is the first L applied-filter matches in dataset order.
CompleteForAppliedFilters ==
    (Answered /\ IsNone(req.sort_by)) =>
        out.rows = Prefix(SelectSeq(dataset, LAMBDA row : SatisfiesAppliedFilters(row, req)),
                          ClampedLimit(req))

\* The call fails only when num_results is passed as None.
FailsOnlyOnNoneLimit ==
    out.status = "error" => (req.num_given /\ IsNone(req.num_results))

\* A sort by one of the four fields gives a non-increasing result.
SortedDescending ==
    (Answered /\ IsSet(req.sort_by) /\ Val(req.sort_by) \in LogicalSortNames) =>
        \A i, j \in DOMAIN out.rows :
            i < j => out.rows[i][SortAttribute(Val(req.sort_by))]
                        >= out.rows[j][SortAttribute(Val(req.sort_by))]

\* Case-insensitive exact matching for requested strings that are not empty.
CaseInsensitiveExactNonEmpty ==
    (req.city # Some(<<>>) /\ req.country # Some(<<>>)) => C6_CaseInsensitiveExact

\* The chatbot node never runs while a tool call is pending or running.
ChatbotWaitsForTools ==
    pc = "chatbot" => (calls = <<>> /\ gstate[Len(gstate)].type \in {"human", "tool"})

\* A graph invocation uses at most RecursionLimit supersteps.
SuperstepsBounded == steps <= RecursionLimit

====
